---- MODULE Spec2Model ----
(***************************************************************************)
(* scripts/make_icns.py: one run of the command-line tool.  main() is      *)
(* modelled as a sequence of steps over the argument vector, the file      *)
(* system, the two output streams and the locals of main and of            *)
(* build_prepared_icon.                                                    *)
(*                                                                         *)
(* A fill ratio is the pair <<num, den>> (den > 0) of an exact rational.   *)
(* The ratios the model draws are the dyadic ones 1/4, 1/2, 3/4, 1, 2, 0   *)
(* (products and quotients with small integers are then exact in binary    *)
(* floating point, so int() of the float equals the truncated rational)    *)
(* and the default 0.64 = 16/25, for which no product min_dim * 0.64 or    *)
(* quotient content_side / 0.64 within the bounds lies within rounding     *)
(* distance of an integer.                                                 *)
(*                                                                         *)
(* An image is [kind, width, height, opaque]: opaque is the set of pixels  *)
(* <<x, y>> whose alpha is not 0.                                          *)
(***************************************************************************)
EXTENDS Integers, Sequences, FiniteSets, TLC

VARIABLES
    argv,          \* sys.argv[1:], the user arguments
    files,         \* file system: path -> content, for the paths that exist
    dirs,          \* file system: the directories that exist
    files0,        \* the files when the process started
    dirs0,         \* the directories when the process started
    pc,            \* position in main()
    input_path,    \* main: input_path ("" before line 57)
    output_path,   \* main: output_path ("" before line 58)
    fill_ratio,    \* main: fill_ratio (<<>> before line 59)
    source,        \* main: the opened image (NoImage before line 67)
    icon,          \* the locals of build_prepared_icon and its result
    stdout,        \* messages printed to standard output
    stderr,        \* messages printed to standard error
    status,        \* exit status of the process (-1 while running)
    trace          \* the steps of main() executed so far, in order

vars == <<argv, files, dirs, files0, dirs0, pc, input_path, output_path,
          fill_ratio, source, icon, stdout, stderr, status, trace>>

-----------------------------------------------------------------------------
(* Bounds of the model *)

MaxW == 3
MaxH == 3
MaxContentPixels == 2

-----------------------------------------------------------------------------
(* Values *)

None == <<>>

Min2(a, b) == IF a <= b THEN a ELSE b
Max2(a, b) == IF a >= b THEN a ELSE b

SetMin(S) == CHOOSE m \in S : \A n \in S : m <= n
SetMax(S) == CHOOSE m \in S : \A n \in S : m >= n

\* int(n / d) for d > 0: Python's int() truncates toward zero.
IntTrunc(n, d) == IF n >= 0 THEN n \div d ELSE -((-n) \div d)

\* int(k * f) for an integer k and a ratio f.
IntOfProduct(k, f) == IntTrunc(k * f[1], f[2])

\* int(k / f) for an integer k and a ratio f # 0.
IntOfQuotient(k, f) ==
    IF f[1] > 0 THEN IntTrunc(k * f[2], f[1]) ELSE IntTrunc(-(k * f[2]), -f[1])

\* int(round(n / 2)): Python's round() rounds a half to the even neighbour.
RoundHalf(n) ==
    IF n % 2 = 0 THEN n \div 2
    ELSE LET lo == (n - 1) \div 2 IN IF lo % 2 = 0 THEN lo ELSE lo + 1

RatioLeq(f, g) == f[1] * g[2] <= g[1] * f[2]
InUnitRange(f) == f # None /\ f[1] > 0 /\ f[1] <= f[2]

DefaultFillRatio == <<16, 25>>

PreparedSize == 1024

Pixels(w, h) == (0 .. w - 1) \X (0 .. h - 1)

NoImage == [kind |-> "none", width |-> 0, height |-> 0, opaque |-> {}]
Garbage == [kind |-> "garbage", width |-> 0, height |-> 0, opaque |-> {}]
IcnsFile == [kind |-> "icns", width |-> PreparedSize, height |-> PreparedSize, opaque |-> {}]
PartialFile == [kind |-> "partial", width |-> 0, height |-> 0, opaque |-> {}]

\* The images a run may be given: every size up to MaxW x MaxH, with at most
\* MaxContentPixels non-transparent pixels or with none transparent (two
\* pixels already produce every bounding box), and the 200 x 100 image with
\* content in the rectangle (50,20)-(150,80).
SmallImages ==
    { [kind |-> "image", width |-> w, height |-> h, opaque |-> S] :
        <<w, h, S>> \in
          UNION { { <<ww, hh, SS>> :
                      SS \in { T \in SUBSET Pixels(ww, hh) :
                                 Cardinality(T) <= MaxContentPixels \/ T = Pixels(ww, hh) } } :
                  <<ww, hh>> \in (1 .. MaxW) \X (1 .. MaxH) } }

WideImage ==
    [kind |-> "image", width |-> 200, height |-> 100,
     opaque |-> (50 .. 149) \X (20 .. 79)]

Images == SmallImages \cup {WideImage}

-----------------------------------------------------------------------------
(* build_prepared_icon *)

\* Image.getbbox() of the alpha channel: None for a fully transparent image.
getbbox(img) ==
    IF img.opaque = {} THEN None
    ELSE LET xs == { p[1] : p \in img.opaque }
             ys == { p[2] : p \in img.opaque }
         IN  <<SetMin(xs), SetMin(ys), SetMax(xs) + 1, SetMax(ys) + 1>>

centered_square_crop_bounds(width, height, side) ==
    LET left == (width - side) \div 2
        top  == (height - side) \div 2
    IN  <<left, top, left + side, top + side>>

\* Lines 25 and 35: the side of the fixed center crop, before the minimum of 1.
FixedCropSide(min_dim, f) == IntOfProduct(min_dim, f)

\* IsFullBox with the test of line 33 never taken.
IsFullBox_never(bbox, width, height) == FALSE

\* Line 33: the test that selects the fixed center crop for a found box.
IsFullBox(bbox, width, height) == bbox = <<0, 0, width, height>>

\* CropSide without the upper clamp to min_dim.
CropSide_unclamped(content_side, min_dim, target_side) ==
    Max2(content_side, target_side)

\* Line 39.
CropSide(content_side, min_dim, target_side) ==
    Max2(content_side, Min2(min_dim, target_side))

\* Lines 40-45 for one axis: lo, hi the box's extent, extent the image's.
CropOrigin(lo, hi, crop_side, extent) ==
    Max2(0, Min2(extent - crop_side, RoundHalf(lo + hi - crop_side)))

\* PositionedBox with the bottom edge computed from crop_left.
PositionedBox_bottomFromLeft(crop_left, crop_top, crop_side) ==
    <<crop_left, crop_top, crop_left + crop_side, crop_left + crop_side>>

\* Line 46.
PositionedBox(crop_left, crop_top, crop_side) ==
    <<crop_left, crop_top, crop_left + crop_side, crop_top + crop_side>>

NoIcon ==
    [case |-> "none", bbox |-> None, content_side |-> -1, target_side |-> -1,
     crop_side |-> -1, crop_box |-> None, size |-> None]

\* The division of line 38 raises ZeroDivisionError.
DividesByZero(img, f) ==
    LET bbox == getbbox(img)
    IN  bbox # None /\ ~IsFullBox(bbox, img.width, img.height) /\ f[1] = 0

build_prepared_icon(img, f) ==
    LET width   == img.width
        height  == img.height
        min_dim == Min2(width, height)
        bbox    == getbbox(img)
    IN  IF bbox = None THEN
            LET crop_side == FixedCropSide(min_dim, f)
            IN  [case |-> "transparent", bbox |-> bbox, content_side |-> -1,
                 target_side |-> -1, crop_side |-> crop_side,
                 crop_box |-> centered_square_crop_bounds(width, height, Max2(1, crop_side)),
                 size |-> <<PreparedSize, PreparedSize>>]
        ELSE
            LET content_w    == Max2(1, bbox[3] - bbox[1])
                content_h    == Max2(1, bbox[4] - bbox[2])
                content_side == Max2(content_w, content_h)
            IN  IF IsFullBox(bbox, width, height) THEN
                    LET crop_side == FixedCropSide(min_dim, f)
                    IN  [case |-> "full", bbox |-> bbox, content_side |-> content_side,
                         target_side |-> -1, crop_side |-> crop_side,
                         crop_box |-> centered_square_crop_bounds(width, height,
                                                                  Max2(1, crop_side)),
                         size |-> <<PreparedSize, PreparedSize>>]
                ELSE
                    LET target_side == IntOfQuotient(content_side, f)
                        crop_side   == CropSide(content_side, min_dim, target_side)
                        crop_left   == CropOrigin(bbox[1], bbox[3], crop_side, width)
                        crop_top    == CropOrigin(bbox[2], bbox[4], crop_side, height)
                    IN  [case |-> "partial", bbox |-> bbox, content_side |-> content_side,
                         target_side |-> target_side, crop_side |-> crop_side,
                         crop_box |-> PositionedBox(crop_left, crop_top, crop_side),
                         size |-> <<PreparedSize, PreparedSize>>]

-----------------------------------------------------------------------------
(* The command line *)

InputPaths == {"in.png", "missing.png"}
OutputPaths == {"out/icon.icns"}
FillTokens == {"abc", "0", "0.25", "0.5", "0.75", "1", "2"}

\* float(token); None stands for ValueError.
ParseFloat(token) ==
    CASE token = "0"    -> <<0, 1>>
      [] token = "0.25" -> <<1, 4>>
      [] token = "0.5"  -> <<1, 2>>
      [] token = "0.75" -> <<3, 4>>
      [] token = "1"    -> <<1, 1>>
      [] token = "2"    -> <<2, 1>>
      [] OTHER          -> None

\* Path.parent
Parent(path) == IF path = "out/icon.icns" THEN "out" ELSE "."

ArgLists ==
    {<<>>}
    \cup { <<i>> : i \in InputPaths }
    \cup { <<i, o>> : <<i, o>> \in InputPaths \X OutputPaths }
    \cup { <<i, o, t>> : <<i, o, t>> \in InputPaths \X OutputPaths \X FillTokens }
    \cup { <<i, o, t, "extra">> : <<i, o, t>> \in InputPaths \X OutputPaths \X FillTokens }

\* ValidArgCount accepting any count of at least two user arguments.
ValidArgCount_atLeast(n) == n + 1 >= 3

\* Line 53: len(sys.argv) counts the program name too.
ValidArgCount(n) == n + 1 \in {3, 4}

UsageMessage == <<"Usage: make_icns.py <input_png> <output_icns> [fill_ratio]", "">>
NotFoundMessage(path) == <<"Icon source not found", path>>
WroteMessage(path) == <<"Wrote icon", path>>
Traceback(exc) == <<"Traceback", exc>>

\* Writing path with content c.
WithFile(fs, path, c) ==
    [p \in DOMAIN fs \cup {path} |-> IF p = path THEN c ELSE fs[p]]

-----------------------------------------------------------------------------
(* main *)

Init ==
    /\ argv \in ArgLists
    /\ files \in { [p \in {"in.png"} |-> c] : c \in Images \cup {Garbage} }
    /\ dirs \in { {"."}, {".", "out"} }
    /\ files0 = files
    /\ dirs0 = dirs
    /\ pc = "start"
    /\ input_path = ""
    /\ output_path = ""
    /\ fill_ratio = None
    /\ source = NoImage
    /\ icon = NoIcon
    /\ stdout = <<>>
    /\ stderr = <<>>
    /\ status = -1
    /\ trace = <<>>

\* Lines 53-55: wrong argument count.
UsageError ==
    /\ pc = "start"
    /\ ~ValidArgCount(Len(argv))
    /\ stderr' = Append(stderr, UsageMessage)
    /\ status' = 1
    /\ pc' = "done"
    /\ trace' = Append(trace, "argc")
    /\ UNCHANGED <<argv, files, dirs, files0, dirs0, input_path, output_path,
                   fill_ratio, source, icon, stdout>>

\* Line 53: the argument count is accepted.
ArgCountOk ==
    /\ pc = "start"
    /\ ValidArgCount(Len(argv))
    /\ pc' = "parse"
    /\ trace' = Append(trace, "argc")
    /\ UNCHANGED <<argv, files, dirs, files0, dirs0, input_path, output_path,
                   fill_ratio, source, icon, stdout, stderr, status>>

ParsedFillRatio == IF Len(argv) + 1 = 4 THEN ParseFloat(argv[3]) ELSE DefaultFillRatio

\* Lines 57-59.
ParseArgs ==
    /\ pc = "parse"
    /\ ParsedFillRatio # None
    /\ input_path' = argv[1]
    /\ output_path' = argv[2]
    /\ fill_ratio' = ParsedFillRatio
    /\ pc' = "exists"
    /\ trace' = Append(trace, "parse")
    /\ UNCHANGED <<argv, files, dirs, files0, dirs0, source, icon, stdout,
                   stderr, status>>

\* Line 59: float() raises ValueError, which nothing catches.
ParseError ==
    /\ pc = "parse"
    /\ ParsedFillRatio = None
    /\ input_path' = argv[1]
    /\ output_path' = argv[2]
    /\ stderr' = Append(stderr, Traceback("ValueError"))
    /\ status' = 1
    /\ pc' = "done"
    /\ trace' = Append(trace, "parse")
    /\ UNCHANGED <<argv, files, dirs, files0, dirs0, fill_ratio, source, icon,
                   stdout>>

\* MissingInput with the parent directory of line 65 created before the test.
MissingInput_afterMkdir ==
    /\ pc = "exists"
    /\ input_path \notin DOMAIN files
    /\ dirs' = dirs \cup {Parent(output_path)}
    /\ stderr' = Append(stderr, NotFoundMessage(input_path))
    /\ status' = 1
    /\ pc' = "done"
    /\ trace' = Append(trace, "exists")
    /\ UNCHANGED <<argv, files, files0, dirs0, input_path, output_path,
                   fill_ratio, source, icon, stdout>>

\* Lines 61-63: the input does not exist.
MissingInput ==
    /\ pc = "exists"
    /\ input_path \notin DOMAIN files
    /\ stderr' = Append(stderr, NotFoundMessage(input_path))
    /\ status' = 1
    /\ pc' = "done"
    /\ trace' = Append(trace, "exists")
    /\ UNCHANGED <<argv, files, dirs, files0, dirs0, input_path, output_path,
                   fill_ratio, source, icon, stdout>>

\* Line 61: the input exists.
InputExists ==
    /\ pc = "exists"
    /\ input_path \in DOMAIN files
    /\ pc' = "mkdir"
    /\ trace' = Append(trace, "exists")
    /\ UNCHANGED <<argv, files, dirs, files0, dirs0, input_path, output_path,
                   fill_ratio, source, icon, stdout, stderr, status>>

\* Line 65.
MakeParent ==
    /\ pc = "mkdir"
    /\ dirs' = dirs \cup {Parent(output_path)}
    /\ pc' = "open"
    /\ trace' = Append(trace, "mkdir")
    /\ UNCHANGED <<argv, files, files0, dirs0, input_path, output_path,
                   fill_ratio, source, icon, stdout, stderr, status>>

\* Line 67.
OpenImage ==
    /\ pc = "open"
    /\ files[input_path].kind = "image"
    /\ source' = files[input_path]
    /\ pc' = "prepare"
    /\ trace' = Append(trace, "open")
    /\ UNCHANGED <<argv, files, dirs, files0, dirs0, input_path, output_path,
                   fill_ratio, icon, stdout, stderr, status>>

\* Line 67: the file is no image the library can read.
OpenError ==
    /\ pc = "open"
    /\ files[input_path].kind # "image"
    /\ stderr' = Append(stderr, Traceback("UnidentifiedImageError"))
    /\ status' = 1
    /\ pc' = "done"
    /\ trace' = Append(trace, "open")
    /\ UNCHANGED <<argv, files, dirs, files0, dirs0, input_path, output_path,
                   fill_ratio, source, icon, stdout>>

\* Line 68.
Prepare ==
    /\ pc = "prepare"
    /\ ~DividesByZero(source, fill_ratio)
    /\ icon' = build_prepared_icon(source, fill_ratio)
    /\ pc' = "save"
    /\ trace' = Append(trace, "prepare")
    /\ UNCHANGED <<argv, files, dirs, files0, dirs0, input_path, output_path,
                   fill_ratio, source, stdout, stderr, status>>

\* Line 68, with line 38 dividing by a zero fill ratio.
PrepareError ==
    /\ pc = "prepare"
    /\ DividesByZero(source, fill_ratio)
    /\ stderr' = Append(stderr, Traceback("ZeroDivisionError"))
    /\ status' = 1
    /\ pc' = "done"
    /\ trace' = Append(trace, "prepare")
    /\ UNCHANGED <<argv, files, dirs, files0, dirs0, input_path, output_path,
                   fill_ratio, source, icon, stdout>>

\* Lines 70-74: the encoder writes the container.
Save ==
    /\ pc = "save"
    /\ files' = WithFile(files, output_path, IcnsFile)
    /\ pc' = "print"
    /\ trace' = Append(trace, "save")
    /\ UNCHANGED <<argv, dirs, files0, dirs0, input_path, output_path,
                   fill_ratio, source, icon, stdout, stderr, status>>

\* Lines 70-74: the encoder fails; the output is left absent or partial.
SaveError ==
    /\ pc = "save"
    /\ \/ files' = files
       \/ files' = WithFile(files, output_path, PartialFile)
    /\ stderr' = Append(stderr, Traceback("OSError"))
    /\ status' = 1
    /\ pc' = "done"
    /\ trace' = Append(trace, "save")
    /\ UNCHANGED <<argv, dirs, files0, dirs0, input_path, output_path,
                   fill_ratio, source, icon, stdout>>

\* Lines 76-77.
PrintSuccess ==
    /\ pc = "print"
    /\ stdout' = Append(stdout, WroteMessage(output_path))
    /\ status' = 0
    /\ pc' = "done"
    /\ trace' = Append(trace, "print")
    /\ UNCHANGED <<argv, files, dirs, files0, dirs0, input_path, output_path,
                   fill_ratio, source, icon, stderr>>

main ==
    \/ UsageError
    \/ ArgCountOk
    \/ ParseArgs
    \/ ParseError
    \/ MissingInput
    \/ InputExists
    \/ MakeParent
    \/ OpenImage
    \/ OpenError
    \/ Prepare
    \/ PrepareError
    \/ Save
    \/ SaveError
    \/ PrintSuccess

Next == main

Spec == Init /\ [][Next]_vars

TypeOK ==
    /\ pc \in {"start", "parse", "exists", "mkdir", "open", "prepare", "save", "print", "done"}
    /\ status \in {-1, 0, 1}
    /\ (status = -1) <=> (pc # "done")

-----------------------------------------------------------------------------
(* Properties *)

\* build_prepared_icon has returned.
Prepared == icon.case # "none"

StepOrder == <<"argc", "parse", "exists", "mkdir", "open", "prepare", "save", "print">>

IsPrefix(s, t) == Len(s) <= Len(t) /\ \A i \in 1 .. Len(s) : s[i] = t[i]

\* The fill ratios in (0,1] a run can be given.
UnitRatios ==
    { f \in { ParseFloat(t) : t \in FillTokens } \cup {DefaultFillRatio} : InUnitRange(f) }

Contains(outer, inner) ==
    /\ outer[1] <= inner[1]
    /\ outer[2] <= inner[2]
    /\ outer[3] >= inner[3]
    /\ outer[4] >= inner[4]

\* C1: for every image, every fill ratio in (0,1] and every alpha bounding
\* box, the crop box (l,t,r,b) of build_prepared_icon has 0 <= l, 0 <= t,
\* r <= width and b <= height.
C1_CropBoxWithinImage ==
    (Prepared /\ InUnitRange(fill_ratio)) =>
        /\ icon.crop_box[1] >= 0
        /\ icon.crop_box[2] >= 0
        /\ icon.crop_box[3] <= source.width
        /\ icon.crop_box[4] <= source.height

\* C2: for every image with at least one non-transparent and at least one
\* fully transparent pixel, and every fill ratio in (0,1], the crop box
\* contains the whole alpha bounding box.
C2_CropBoxContainsContent ==
    ( /\ Prepared
      /\ InUnitRange(fill_ratio)
      /\ source.opaque # {}
      /\ source.opaque # Pixels(source.width, source.height) ) =>
        Contains(icon.crop_box, getbbox(source))

\* C3: when the bounding box is present and is not the full image, the crop
\* side is floor(content_side / fill_ratio) clamped to at least content_side
\* and at most min_dim: it is always >= content_side and always <= min_dim.
C3_CropSideClamped ==
    (Prepared /\ InUnitRange(fill_ratio) /\ icon.bbox # None
        /\ icon.bbox # <<0, 0, source.width, source.height>>) =>
        LET min_dim == Min2(source.width, source.height)
            desired == (icon.content_side * fill_ratio[2]) \div fill_ratio[1]
        IN  /\ icon.crop_side = Max2(icon.content_side, Min2(min_dim, desired))
            /\ icon.crop_side >= icon.content_side
            /\ icon.crop_side <= min_dim

\* C4: for a fully transparent image and for an image whose bounding box is
\* the full image, the crop box is the centered square of side
\* s = max(1, floor(min(W,H) * fill_ratio)): left = floor((W - s) / 2),
\* top = floor((H - s) / 2), right = left + s, bottom = top + s; with
\* fill_ratio < 1 and min(W,H) >= 2 it is not the full image.
C4_FixedCenterCrop ==
    ( /\ Prepared
      /\ InUnitRange(fill_ratio)
      /\ getbbox(source) \in {None, <<0, 0, source.width, source.height>>} ) =>
        LET W    == source.width
            H    == source.height
            m    == Min2(W, H)
            s    == Max2(1, (m * fill_ratio[1]) \div fill_ratio[2])
            left == (W - s) \div 2
            top  == (H - s) \div 2
        IN  /\ icon.crop_box = <<left, top, left + s, top + s>>
            /\ (getbbox(source) # None /\ fill_ratio[1] < fill_ratio[2] /\ m >= 2)
                 => icon.crop_box # <<0, 0, W, H>>

WitnessC4 ==
    /\ Prepared
    /\ source.width = 3
    /\ source.height = 2
    /\ source.opaque = Pixels(3, 2)
    /\ fill_ratio = <<3, 4>>
    /\ icon.crop_box = <<1, 0, 2, 1>>

\* C5: for a fixed image with a bounding box that is not the full image, the
\* crop side does not grow with the fill ratio (f1 <= f2 in (0,1] gives
\* crop_side(f1) >= crop_side(f2)), at fill ratio 1 it is content_side, and
\* for every fill ratio in (0,1] it is at most min(width, height).
C5_CropSideMonotone ==
    (Prepared /\ InUnitRange(fill_ratio) /\ icon.case = "partial") =>
        /\ \A g \in UnitRatios :
              RatioLeq(fill_ratio, g) =>
                  build_prepared_icon(source, g).crop_side <= icon.crop_side
        /\ build_prepared_icon(source, <<1, 1>>).crop_side = icon.content_side
        /\ icon.crop_side <= Min2(source.width, source.height)

\* C6: for a 200 x 100 image with alpha bounding box (50,20,150,80) and fill
\* ratio 0.5: content_side = 100, target_side = 200, crop side = 100 and the
\* crop box is (50,0,150,100).
C6_WideImageExample ==
    ( /\ Prepared
      /\ source.width = 200
      /\ source.height = 100
      /\ getbbox(source) = <<50, 20, 150, 80>>
      /\ fill_ratio = <<1, 2>> ) =>
        /\ icon.content_side = 100
        /\ icon.target_side = 200
        /\ icon.crop_side = 100
        /\ icon.crop_box = <<50, 0, 150, 100>>

WitnessC6 ==
    /\ Prepared
    /\ source = WideImage
    /\ icon.bbox = <<50, 20, 150, 80>>
    /\ fill_ratio = <<1, 2>>
    /\ Len(argv) = 3
    /\ argv[3] = "0.5"

\* C7: a run with 2 or 3 user arguments whose input path does not exist ends
\* with status 1 and the "not found" message on standard error, whatever the
\* other arguments are.
C7_MissingInputReported ==
    (pc = "done" /\ Len(argv) \in {2, 3} /\ argv[1] \notin DOMAIN files0) =>
        /\ status = 1
        /\ stderr = <<NotFoundMessage(argv[1])>>

\* C8: a run whose number of user arguments is not 2 or 3 only checks the
\* argument count: it parses no argument, examines no file, prints nothing
\* to standard output, and ends with status 1 and the usage message on
\* standard error.
C8_UsageError ==
    (Len(argv) \notin {2, 3}) =>
        /\ pc \in {"start", "done"}
        /\ IsPrefix(trace, <<"argc">>)
        /\ input_path = "" /\ output_path = "" /\ fill_ratio = None
        /\ stdout = <<>>
        /\ files = files0 /\ dirs = dirs0
        /\ (pc = "done") => (status = 1 /\ stderr = <<UsageMessage>>)

WitnessC8 ==
    /\ pc = "done"
    /\ Len(argv) = 4
    /\ argv[1] = "in.png"
    /\ stderr = <<UsageMessage>>

\* C9: in every case the crop box is square and its side is the crop side
\* computed before positioning; clamping the corner moves the box and does
\* not change its width or height.
C9_CropBoxSquare ==
    Prepared =>
        LET side == IF icon.case = "partial" THEN icon.crop_side
                    ELSE Max2(1, icon.crop_side)
        IN  /\ icon.crop_box[3] - icon.crop_box[1] = side
            /\ icon.crop_box[4] - icon.crop_box[2] = side

\* A partial-content crop whose corner was moved by the clamp of line 44.
WitnessC9 ==
    /\ Prepared
    /\ icon.case = "partial"
    /\ icon.crop_box[1] # RoundHalf(icon.bbox[1] + icon.bbox[3] - icon.crop_side)
    /\ icon.crop_box[1] # icon.crop_box[2]

\* C10: the steps of main run in the order argument count, parse, existence
\* check, parent directory, load, prepare, write, message; a run that ends
\* with the usage error or the missing-input error leaves the file system as
\* it was; the success message and status 0 come only after the write.
C10_StepOrderAndFrame ==
    /\ IsPrefix(trace, StepOrder)
    /\ ( /\ pc = "done"
         /\ stderr # <<>>
         /\ stderr[Len(stderr)][1] \in {UsageMessage[1], NotFoundMessage("")[1]} ) =>
            (files = files0 /\ dirs = dirs0)
    /\ (status = 0 \/ stdout # <<>>) =>
          /\ \E i \in 1 .. Len(trace) : trace[i] = "save"
          /\ output_path \in DOMAIN files
          /\ files[output_path] = IcnsFile
          /\ Parent(output_path) \in dirs
          /\ stdout = <<WroteMessage(output_path)>>
          /\ status = 0

\* A missing-input run that started without the output's parent directory.
WitnessC10 ==
    /\ pc = "done"
    /\ stderr = <<NotFoundMessage("missing.png")>>
    /\ "out" \notin dirs0
    /\ trace = <<"argc", "parse", "exists">>

====
